---- MODULE Spec2Model ----
EXTENDS Integers, Sequences, FiniteSets, TLC

\* Model of agents_demo.py: the text-to-JSON extractor (extract_json), the
\* word tokenizer (word_count), and the Planner -> Reviewer -> Finalizer ->
\* repair pipeline (run_pipeline).  Strings are sequences of one-character
\* strings over a small alphabet.

Q == "dq"
BT == "bq"

\* ------------------------------------------------------------------
\* Python json.loads over the alphabet used here: objects, strings
\* without escapes, and non-negative integers.  A parse result carries
\* the value in canonical (whitespace-free) token form.
\* ------------------------------------------------------------------

JsonWs == {" "}
Digits == {"1"}

Fail == [ok |-> FALSE, next |-> 0, val |-> <<>>]

RECURSIVE SkipWs(_, _)
SkipWs(t, i) == IF i <= Len(t) /\ t[i] \in JsonWs THEN SkipWs(t, i + 1) ELSE i

RECURSIVE FindCh(_, _, _)
FindCh(t, i, c) == IF i > Len(t) THEN 0 ELSE IF t[i] = c THEN i ELSE FindCh(t, i + 1, c)

RECURSIVE DigitsEnd(_, _)
DigitsEnd(t, i) == IF i <= Len(t) /\ t[i] \in Digits THEN DigitsEnd(t, i + 1) ELSE i

ParseString(t, i) ==
  LET j == FindCh(t, i + 1, Q) IN
  IF i <= Len(t) /\ t[i] = Q /\ j # 0
  THEN [ok |-> TRUE, next |-> j + 1, val |-> SubSeq(t, i, j)]
  ELSE Fail

ParseNumber(t, i) ==
  LET e == DigitsEnd(t, i) IN
  IF e > i THEN [ok |-> TRUE, next |-> e, val |-> SubSeq(t, i, e - 1)] ELSE Fail

RECURSIVE ParseValue(_, _), ParseObject(_, _), ParseMembers(_, _)

ParseValue(t, i) ==
  IF i > Len(t) THEN Fail
  ELSE CASE t[i] = "{" -> ParseObject(t, i)
         [] t[i] = Q -> ParseString(t, i)
         [] t[i] \in Digits -> ParseNumber(t, i)
         [] OTHER -> Fail

ParseObject(t, i) ==
  LET j == SkipWs(t, i + 1) IN
  IF j <= Len(t) /\ t[j] = "}"
  THEN [ok |-> TRUE, next |-> j + 1, val |-> <<"{", "}">>]
  ELSE LET m == ParseMembers(t, j) IN
       IF m.ok THEN [ok |-> TRUE, next |-> m.next, val |-> <<"{">> \o m.val]
       ELSE Fail

\* one "key": value pair followed by "," and more pairs, or by "}"
ParseMembers(t, j) ==
  LET k == ParseString(t, j) IN
  IF ~k.ok THEN Fail
  ELSE LET c == SkipWs(t, k.next) IN
  IF ~(c <= Len(t) /\ t[c] = ":") THEN Fail
  ELSE LET v == ParseValue(t, SkipWs(t, c + 1)) IN
  IF ~v.ok THEN Fail
  ELSE LET e == SkipWs(t, v.next) IN
  IF e > Len(t) THEN Fail
  ELSE IF t[e] = "}"
       THEN [ok |-> TRUE, next |-> e + 1, val |-> k.val \o <<":">> \o v.val \o <<"}">>]
  ELSE IF t[e] = ","
       THEN LET r == ParseMembers(t, SkipWs(t, e + 1)) IN
            IF r.ok THEN [ok |-> TRUE, next |-> r.next,
                          val |-> k.val \o <<":">> \o v.val \o <<",">> \o r.val]
            ELSE Fail
  ELSE Fail

\* json.loads(t): one value, surrounded only by whitespace
JsonLoads(t) ==
  LET v == ParseValue(t, SkipWs(t, 1)) IN
  IF v.ok /\ SkipWs(t, v.next) = Len(t) + 1
  THEN [ok |-> TRUE, val |-> v.val]
  ELSE [ok |-> FALSE, val |-> <<>>]

\* str.strip() (whitespace of the alphabet is the space)
RECURSIVE LStrip(_)
LStrip(s) == IF s # <<>> /\ Head(s) = " " THEN LStrip(Tail(s)) ELSE s
RECURSIVE RStripSet(_, _)
RStripSet(s, cs) == IF s # <<>> /\ s[Len(s)] \in cs THEN RStripSet(SubSeq(s, 1, Len(s) - 1), cs) ELSE s
Strip(s) == RStripSet(LStrip(s), {" "})

\* ------------------------------------------------------------------
\* extract_json
\* ------------------------------------------------------------------

RECURSIVE FindTriple(_, _)
FindTriple(t, i) ==
  IF i + 2 > Len(t) THEN 0
  ELSE IF t[i] = BT /\ t[i + 1] = BT /\ t[i + 2] = BT THEN i
  ELSE FindTriple(t, i + 1)

StripFencesNone(t) == t

\* re.sub(r"```.*?```", "", text, flags=re.DOTALL)
RECURSIVE StripFences(_)
StripFences(t) ==
  LET i == FindTriple(t, 1) IN
  IF i = 0 THEN t
  ELSE LET k == FindTriple(t, i + 3) IN
       IF k = 0 THEN t
       ELSE SubSeq(t, 1, i - 1) \o StripFences(SubSeq(t, k + 3, Len(t)))

\* the brace-depth scan collecting candidate spans
RECURSIVE ScanCandidates(_, _, _, _, _)
ScanCandidates(t, i, depth, start, acc) ==
  IF i > Len(t) THEN acc
  ELSE IF t[i] = "{"
       THEN ScanCandidates(t, i + 1, depth + 1, IF depth = 0 THEN i ELSE start, acc)
  ELSE IF t[i] = "}" /\ depth > 0
       THEN IF depth - 1 = 0 /\ start # 0
            THEN ScanCandidates(t, i + 1, 0, start, Append(acc, SubSeq(t, start, i)))
            ELSE ScanCandidates(t, i + 1, depth - 1, start, acc)
  ELSE ScanCandidates(t, i + 1, depth, start, acc)

RECURSIVE LastParsing(_)
LastParsing(cs) ==
  IF cs = <<>> THEN [ok |-> FALSE, val |-> <<>>]
  ELSE IF JsonLoads(cs[Len(cs)]).ok THEN JsonLoads(cs[Len(cs)])
  ELSE LastParsing(SubSeq(cs, 1, Len(cs) - 1))

RECURSIVE FirstParsing(_)
FirstParsing(cs) ==
  IF cs = <<>> THEN [ok |-> FALSE, val |-> <<>>]
  ELSE IF JsonLoads(Head(cs)).ok THEN JsonLoads(Head(cs))
  ELSE FirstParsing(Tail(cs))

ExtractJsonNoFastPath(text) ==
  FirstParsing(ScanCandidates(StripFences(text), 1, 0, 0, <<>>))

\* result [ok |-> FALSE] stands for the raised ValueError
ExtractJson(text) ==
  LET t == StripFences(text) IN
  IF JsonLoads(Strip(t)).ok THEN JsonLoads(Strip(t))
  ELSE FirstParsing(ScanCandidates(t, 1, 0, 0, <<>>))

\* ------------------------------------------------------------------
\* JSON objects as Python builds them (json.dumps) and their canonical
\* token form.  An object is a sequence of <<key, value>> pairs; a value
\* is a string, the integer 1, or the empty object.
\* ------------------------------------------------------------------

DumpVal(v) ==
  CASE v.t = "str" -> <<Q>> \o v.s \o <<Q>>
    [] v.t = "num" -> v.s
    [] v.t = "obj" -> <<"{", "}">>

\* json.dumps(o): separators ", " and ": "
RECURSIVE DumpPairs(_)
DumpPairs(ps) ==
  IF ps = <<>> THEN <<>>
  ELSE <<Q>> \o Head(ps)[1] \o <<Q, ":", " ">> \o DumpVal(Head(ps)[2])
       \o (IF Len(ps) > 1 THEN <<",", " ">> \o DumpPairs(Tail(ps)) ELSE <<>>)
JsonDumps(o) == <<"{">> \o DumpPairs(o) \o <<"}">>

RECURSIVE CanonPairs(_)
CanonPairs(ps) ==
  IF ps = <<>> THEN <<>>
  ELSE <<Q>> \o Head(ps)[1] \o <<Q, ":">> \o DumpVal(Head(ps)[2])
       \o (IF Len(ps) > 1 THEN <<",">> \o CanonPairs(Tail(ps)) ELSE <<>>)
CanonObj(o) == <<"{">> \o CanonPairs(o) \o <<"}">>

\* ------------------------------------------------------------------
\* word_count and the summary tokenizer re.findall(r"\b[\w'-]+\b", s).
\* Inside each maximal run of [\w'-] characters, the greedy match that
\* must end on a word boundary spans from the run's first \w character to
\* its last one; a run without \w characters yields no token.
\* "acirc", "euro" and "rdquo" are the characters a-circumflex, euro sign
\* and right double quote.
\* ------------------------------------------------------------------

MaxWords == 25

WordChars == {"a", "A", "b", "B", "w", "s", "1", "0", "N", "o", "n", "e", "acirc"}
TokChars == WordChars \cup {"'", "-"}

RECURSIVE RunEnd(_, _)
RunEnd(s, i) == IF i < Len(s) /\ s[i + 1] \in TokChars THEN RunEnd(s, i + 1) ELSE i

WordSpan(r) ==
  LET ws == {i \in 1..Len(r) : r[i] \in WordChars} IN
  IF ws = {} THEN <<>>
  ELSE <<SubSeq(r, CHOOSE i \in ws : \A j \in ws : i <= j,
                   CHOOSE i \in ws : \A j \in ws : i >= j)>>

RECURSIVE TokensFrom(_, _)
TokensFrom(s, i) ==
  IF i > Len(s) THEN <<>>
  ELSE IF s[i] \notin TokChars THEN TokensFrom(s, i + 1)
  ELSE LET e == RunEnd(s, i) IN WordSpan(SubSeq(s, i, e)) \o TokensFrom(s, e + 1)

Tokens(s) == TokensFrom(s, 1)

word_count(s) == Len(Tokens(s))

\* " ".join(tokens)
RECURSIVE Join(_)
Join(ts) ==
  IF ts = <<>> THEN <<>>
  ELSE Head(ts) \o (IF Len(ts) > 1 THEN <<" ">> \o Join(Tail(ts)) ELSE <<>>)

\* the characters of the literal " ,;:â€”-" given to rstrip
RStripChars == {" ", ",", ";", ":", "acirc", "euro", "rdquo", "-"}

\* ------------------------------------------------------------------
\* JSON values handled by run_pipeline
\* ------------------------------------------------------------------

Absent == [t |-> "absent"]
NullV == [t |-> "null"]
NoJson == [t |-> "nojson"]
StrV(x) == [t |-> "str", s |-> x]
NumV(x) == [t |-> "num", s |-> x]
ListV(x) == [t |-> "list", items |-> x]
\* a non-empty dict used as a scalar, with its Python repr
ObjV(r) == [t |-> "obj", size |-> 1, repr |-> r, tags |-> Absent, summary |-> Absent]
EmptyObj == [t |-> "obj", size |-> 0, repr |-> <<"{", "}">>, tags |-> Absent, summary |-> Absent]
FinalObj(tv, sv) ==
  [t |-> "obj", size |-> (IF tv = Absent THEN 0 ELSE 1) + (IF sv = Absent THEN 0 ELSE 1),
   repr |-> <<>>, tags |-> tv, summary |-> sv]
PlanObj(tv, sv) == [t |-> "pobj", proposed_tags |-> tv, draft_summary |-> sv]
RevObj(tv, sv) == [t |-> "robj", approved_tags |-> tv, edited_summary |-> sv]

\* Python truthiness
Truthy(v) ==
  CASE v.t = "absent" -> FALSE
    [] v.t = "null" -> FALSE
    [] v.t = "str" -> v.s # <<>>
    [] v.t = "num" -> v.s # <<"0">>
    [] v.t = "list" -> v.items # <<>>
    [] v.t = "obj" -> v.size > 0

\* Python str()
StrOf(v) ==
  CASE v.t = "str" -> v.s
    [] v.t = "num" -> v.s
    [] v.t = "null" -> <<"N", "o", "n", "e">>
    [] v.t = "obj" -> v.repr

LowerCh(c) == CASE c = "A" -> "a" [] c = "B" -> "b" [] c = "N" -> "n" [] OTHER -> c
Lower(x) == [i \in DOMAIN x |-> LowerCh(x[i])]

NonBlankStr(v) == v.t = "str" /\ Strip(v.s) # <<>>

\* PlannerOut(**planner_json) with validator nonempty_tags
PlannerOut(v) ==
  /\ v.t = "pobj"
  /\ v.proposed_tags.t = "list"
  /\ v.proposed_tags.items # <<>>
  /\ \A i \in DOMAIN v.proposed_tags.items : NonBlankStr(v.proposed_tags.items[i])
  /\ v.draft_summary.t = "str"

\* ReviewerOut(**reviewer_json) with validator exactly_three
ReviewerOut(v) ==
  /\ v.t = "robj"
  /\ v.approved_tags.t = "list"
  /\ Len(v.approved_tags.items) = 3
  /\ \A i \in 1..3 : NonBlankStr(v.approved_tags.items[i])
  /\ v.edited_summary.t = "str"

\* PublishOut(tags=..., summary=...) with validators exactly_three_final and limit_words
PublishOut(tg, sm) ==
  /\ Len(tg) = 3
  /\ \A i \in 1..3 : Strip(tg[i]) # <<>>
  /\ word_count(sm) <= MaxWords

\* ------------------------------------------------------------------
\* run_pipeline: the repair step (lines 268-305)
\* ------------------------------------------------------------------

RECURSIVE Dedup(_, _, _)
Dedup(ts, seen, uniq) ==
  IF ts = <<>> THEN [seen |-> seen, uniq |-> uniq]
  ELSE LET t == Strip(Head(ts)) IN
       IF t # <<>> /\ Lower(t) \notin seen
       THEN Dedup(Tail(ts), seen \cup {Lower(t)}, Append(uniq, t))
       ELSE Dedup(Tail(ts), seen, uniq)

RECURSIVE TopUp(_, _, _)
TopUp(rev, seen, uniq) ==
  IF rev = <<>> THEN uniq
  ELSE LET t == Head(rev)
           new == Lower(t) \notin seen
           s2 == IF new THEN seen \cup {Lower(t)} ELSE seen
           u2 == IF new THEN Append(uniq, t) ELSE uniq
       IN IF Len(u2) = 3 THEN u2 ELSE TopUp(Tail(rev), s2, u2)

RepairTagsListOnly(fj, rev) ==
  LET tv == IF Truthy(fj.tags) /\ fj.tags.t = "list" THEN fj.tags
            ELSE ListV([i \in DOMAIN rev |-> StrV(rev[i])])
      lst == [i \in DOMAIN tv.items |-> StrOf(tv.items[i])]
      d == Dedup(lst, {}, <<>>)
      u == IF Len(d.uniq) < 3 THEN TopUp(rev, d.seen, d.uniq) ELSE d.uniq
  IN SubSeq(u, 1, IF Len(u) < 3 THEN Len(u) ELSE 3)

RepairTags(fj, rev) ==
  LET tv == IF Truthy(fj.tags) THEN fj.tags
            ELSE ListV([i \in DOMAIN rev |-> StrV(rev[i])])
      lst == IF tv.t # "list" THEN <<StrOf(tv)>>
             ELSE [i \in DOMAIN tv.items |-> StrOf(tv.items[i])]
      d == Dedup(lst, {}, <<>>)
      u == IF Len(d.uniq) < 3 THEN TopUp(rev, d.seen, d.uniq) ELSE d.uniq
  IN SubSeq(u, 1, IF Len(u) < 3 THEN Len(u) ELSE 3)

SummarySource(fj, revS) ==
  Strip(IF Truthy(fj.summary) THEN StrOf(fj.summary) ELSE revS)

RepairSummary(fj, revS) ==
  LET sm == SummarySource(fj, revS)
      toks == Tokens(sm)
  IN IF Len(toks) > MaxWords
     THEN RStripSet(Join(SubSeq(toks, 1, MaxWords)), RStripChars)
     ELSE sm

\* last-resort PublishOut (lines 301-304); reviewer is always truthy here
FallbackSummary(revS, sm) ==
  IF word_count(revS) <= MaxWords THEN revS
  ELSE Join(SubSeq(Tokens(sm), 1, IF Len(Tokens(sm)) < MaxWords THEN Len(Tokens(sm)) ELSE MaxWords))

VARIABLES xtext, xparts, xobj, xres, xpc

xvars == <<xtext, xparts, xobj, xres, xpc>>

NoRes == [ok |-> FALSE, val |-> <<>>]

\* one call of extract_json on the chosen text
Extract ==
  /\ xpc = "ready"
  /\ xres' = ExtractJson(xtext)
  /\ xpc' = "done"
  /\ UNCHANGED <<xtext, xparts, xobj>>

\* strings of length at most n over alphabet cs
StringsUpTo(cs, n) == UNION {[1..k -> cs] : k \in 0..n}

\* ------------------------------------------------------------------
\* run_pipeline as a state machine.  pc is the stage about to run;
\* calls counts call_ollama invocations; printed records that the final
\* Publish JSON was written to stdout; stderrOut that an error was written
\* to stderr; failedFrom the stage whose exception ended the run.
\* ------------------------------------------------------------------

VARIABLES pc, calls, revTags, revSumm, finalJson, repTags, repSumm,
          publish, printed, stderrOut, failedFrom

pvars == <<pc, calls, revTags, revSumm, finalJson, repTags, repSumm,
           publish, printed, stderrOut, failedFrom>>

vars == <<xvars, pvars>>

PipeInit ==
  /\ pc = "PLANNING"
  /\ calls = 0
  /\ revTags = <<>>
  /\ revSumm = <<>>
  /\ finalJson = NoJson
  /\ repTags = <<>>
  /\ repSumm = <<>>
  /\ publish = [tags |-> <<>>, summary |-> <<>>]
  /\ printed = FALSE
  /\ stderrOut = FALSE
  /\ failedFrom = "none"

PlanningSwallow(PV) ==
  /\ pc = "PLANNING"
  /\ calls' = calls + 1
  /\ \E v \in PV :
       IF PlannerOut(v)
       THEN UNCHANGED <<stderrOut, failedFrom>>
       ELSE /\ stderrOut' = TRUE
            /\ failedFrom' = "PLANNING"
  /\ pc' = "REVIEWING"
  /\ UNCHANGED <<revTags, revSumm, finalJson, repTags, repSumm, publish, printed>>

\* Planner call, extract_json and PlannerOut validation (lines 211-225);
\* v is what extract_json returned, NoJson when it raised
Planning(PV) ==
  /\ pc = "PLANNING"
  /\ calls' = calls + 1
  /\ \E v \in PV :
       IF PlannerOut(v)
       THEN /\ pc' = "REVIEWING"
            /\ UNCHANGED <<stderrOut, failedFrom>>
       ELSE /\ pc' = "FAILED"
            /\ stderrOut' = TRUE
            /\ failedFrom' = "PLANNING"
  /\ UNCHANGED <<revTags, revSumm, finalJson, repTags, repSumm, publish, printed>>

\* Reviewer call, extract_json and ReviewerOut validation (lines 228-244)
Reviewing(RV) ==
  /\ pc = "REVIEWING"
  /\ calls' = calls + 1
  /\ \E v \in RV :
       IF ReviewerOut(v)
       THEN /\ pc' = "FINALIZING"
            /\ revTags' = [i \in 1..3 |-> v.approved_tags.items[i].s]
            /\ revSumm' = v.edited_summary.s
            /\ UNCHANGED <<stderrOut, failedFrom>>
       ELSE /\ pc' = "FAILED"
            /\ stderrOut' = TRUE
            /\ failedFrom' = "REVIEWING"
            /\ UNCHANGED <<revTags, revSumm>>
  /\ UNCHANGED <<finalJson, repTags, repSumm, publish, printed>>

\* Finalizer call and extract_json with its fallback (lines 247-266)
Finalizing(FV) ==
  /\ pc = "FINALIZING"
  /\ calls' = calls + 1
  /\ \E v \in FV :
       finalJson' = IF v = NoJson
                    THEN FinalObj(ListV([i \in 1..3 |-> StrV(revTags[i])]), StrV(revSumm))
                    ELSE v
  /\ pc' = "REPAIRING"
  /\ UNCHANGED <<revTags, revSumm, repTags, repSumm, publish, printed, stderrOut, failedFrom>>

RepairingUnchecked ==
  /\ pc = "REPAIRING"
  /\ IF finalJson.t # "obj"
     THEN /\ pc' = "FAILED"
          /\ stderrOut' = TRUE
          /\ failedFrom' = "REPAIRING"
          /\ UNCHANGED <<repTags, repSumm, publish, printed>>
     ELSE LET rt == RepairTags(finalJson, revTags)
              rs == RepairSummary(finalJson, revSumm)
          IN /\ repTags' = rt
             /\ repSumm' = rs
             /\ publish' = [tags |-> rt, summary |-> rs]
             /\ printed' = TRUE
             /\ pc' = "DONE"
             /\ UNCHANGED <<stderrOut, failedFrom>>
  /\ UNCHANGED <<calls, revTags, revSumm, finalJson>>

\* guardrails, PublishOut, last-resort fallback and printing (lines 268-309);
\* final_json.get raises AttributeError when final_json is not a dict
Repairing ==
  /\ pc = "REPAIRING"
  /\ IF finalJson.t # "obj"
     THEN /\ pc' = "FAILED"
          /\ stderrOut' = TRUE
          /\ failedFrom' = "REPAIRING"
          /\ UNCHANGED <<repTags, repSumm, publish, printed>>
     ELSE LET rt == RepairTags(finalJson, revTags)
              rs == RepairSummary(finalJson, revSumm)
              ft == SubSeq(revTags, 1, 3)
              fs == FallbackSummary(revSumm, rs)
          IN /\ repTags' = rt
             /\ repSumm' = rs
             /\ IF PublishOut(rt, rs)
                THEN /\ publish' = [tags |-> rt, summary |-> rs]
                     /\ printed' = TRUE
                     /\ pc' = "DONE"
                     /\ UNCHANGED <<stderrOut, failedFrom>>
                ELSE IF PublishOut(ft, fs)
                THEN /\ publish' = [tags |-> ft, summary |-> fs]
                     /\ printed' = TRUE
                     /\ pc' = "DONE"
                     /\ UNCHANGED <<stderrOut, failedFrom>>
                ELSE /\ pc' = "FAILED"
                     /\ stderrOut' = TRUE
                     /\ failedFrom' = "REPAIRING"
                     /\ UNCHANGED <<publish, printed>>
  /\ UNCHANGED <<calls, revTags, revSumm, finalJson>>

PipeNext(PV, RV, FV) ==
  \/ Planning(PV)
  \/ Reviewing(RV)
  \/ Finalizing(FV)
  \/ Repairing

\* ------------------------------------------------------------------
\* Inputs of the pipeline specifications
\* ------------------------------------------------------------------

Rep(u, n) == LET f[k \in 0..n] == IF k = 0 THEN <<>> ELSE f[k - 1] \o u IN f[n]

Ta == <<"a">>
TA == <<"A">>
Tb == <<"b">>
TsA == <<" ", "a">>
Tsb == <<" ", "b">>
SumShort == <<"s", " ", "w">>
SumLong == Rep(<<"w", " ">>, 27)
SumAcirc == Rep(<<"w", " ">>, 24) \o <<"acirc", " ", "w">>

PlanVals ==
  {NoJson, NumV(<<"1">>),
   PlanObj(ListV(<<StrV(Ta)>>), StrV(SumShort)),
   PlanObj(ListV(<<>>), StrV(SumShort)),
   PlanObj(ListV(<<StrV(<<" ">>)>>), StrV(SumShort)),
   PlanObj(ListV(<<StrV(Ta)>>), NumV(<<"1">>))}

PlanValid == {PlanObj(ListV(<<StrV(Ta), StrV(Tb)>>), StrV(SumShort))}

RevValsPipe ==
  {NoJson, StrV(Ta),
   RevObj(ListV(<<StrV(Ta), StrV(Tb), StrV(TA)>>), StrV(SumShort)),
   RevObj(ListV(<<StrV(TA), StrV(Tb), StrV(TsA)>>), StrV(SumLong)),
   RevObj(ListV(<<StrV(Ta), StrV(Tb)>>), StrV(SumShort)),
   RevObj(ListV(<<StrV(Ta), StrV(Tb), NumV(<<"1">>)>>), StrV(SumShort)),
   RevObj(ListV(<<StrV(Ta), StrV(Tb), StrV(<<" ">>)>>), StrV(SumShort))}

FinalValsPipe ==
  {NoJson, NumV(<<"1">>), StrV(Ta), NullV, ListV(<<StrV(Ta)>>), EmptyObj}
  \cup {FinalObj(tv, sv) :
          tv \in {Absent, StrV(Tb), ListV(<<>>),
                  ListV(<<StrV(Ta), StrV(Ta), StrV(Tb)>>),
                  ListV(<<StrV(Ta), StrV(Tb), StrV(<<"B">>), StrV(TA)>>)},
          sv \in {Absent, StrV(SumShort), StrV(SumLong), StrV(SumAcirc), NumV(<<"1">>)}}

\* tag inputs: every Reviewer triple over RevTagStrs, Finalizer tags fields
\* of every shape, and lists up to MaxFinalTags entries
MaxFinalTags == 4
RevTagStrs == {Ta, TA, TsA, Tb}
RevValsTags ==
  {RevObj(ListV(<<StrV(x), StrV(y), StrV(z)>>), StrV(SumShort)) : x, y, z \in RevTagStrs}
EntryVals == {StrV(Ta), StrV(TA), StrV(Tsb), StrV(<<>>), NumV(<<"1">>), NullV}
TagVals ==
  {Absent, NullV, StrV(<<>>), StrV(Tsb), StrV(<<" ">>), NumV(<<"1">>), NumV(<<"0">>),
   ObjV(<<"{", "'", "a", "'", ":", " ", "1", "}">>), EmptyObj}
  \cup {ListV(x) : x \in StringsUpTo(EntryVals, MaxFinalTags)}
FinalValsTags == {NoJson} \cup {FinalObj(tv, Absent) : tv \in TagVals}

\* summary inputs: strings of 24 or 25 words followed by every tail of
\* at most MaxTail characters
MaxTail == 3
SummChars == {"w", "acirc", " ", "-", "'", ","}
RevValsSumm ==
  {RevObj(ListV(<<StrV(Ta), StrV(Tb), StrV(<<"s">>)>>), StrV(x)) : x \in {SumShort, SumLong}}
FinalValsSumm ==
  {NoJson, FinalObj(Absent, Absent), FinalObj(Absent, NumV(<<"1">>))}
  \cup {FinalObj(Absent, StrV(pre \o Rep(<<"w", " ">>, n) \o tl)) :
          pre \in {<<>>, <<" ">>}, n \in {24, 25}, tl \in StringsUpTo(SummChars, MaxTail)}

XInit0 ==
  /\ xtext = <<>>
  /\ xparts = <<>>
  /\ xobj = <<>>
  /\ xres = NoRes
  /\ xpc = "idle"

Init == PipeInit /\ XInit0

NextPipe == PipeNext(PlanVals, RevValsPipe, FinalValsPipe) /\ UNCHANGED xvars
Spec == Init /\ [][NextPipe]_vars

NextTags == PipeNext(PlanValid, RevValsTags, FinalValsTags) /\ UNCHANGED xvars
SpecTags == Init /\ [][NextTags]_vars

NextSumm == PipeNext(PlanValid, RevValsSumm, FinalValsSumm) /\ UNCHANGED xvars
SpecSumm == Init /\ [][NextSumm]_vars

\* ------------------------------------------------------------------
\* Inputs of the extract_json specifications
\* ------------------------------------------------------------------

Ka == <<"a">>
Kb == <<"b">>
ObjEmptyD == [t |-> "obj"]

XInitWith(t, parts, o) ==
  /\ xtext = t
  /\ xparts = parts
  /\ xobj = o
  /\ xres = NoRes
  /\ xpc = "ready"

NextX == Extract /\ UNCHANGED pvars

\* one object inside noise of at most MaxNoise characters on each side
MaxNoise == 2
NoiseChars == {"{", "}", "a", " "}
ObjsC3 ==
  {<<>>, <<<<Ka, NumV(<<"1">>)>>>>, <<<<Ka, StrV(<<"}">>)>>>>,
   <<<<Ka, StrV(<<"{">>)>>>>, <<<<Ka, ObjEmptyD>>>>}
InitC3 ==
  /\ PipeInit
  /\ \E n1, n2 \in StringsUpTo(NoiseChars, MaxNoise), o \in ObjsC3 :
       XInitWith(n1 \o CanonObj(o) \o n2, <<n1, n2>>, o)
SpecC3 == InitC3 /\ [][NextX]_vars

\* json.dumps of objects with up to two keys whose string values have at
\* most MaxStrLen characters
MaxStrLen == 3
StrCharsC4 == {BT, "{", "}", "a"}
ValsC4 == {StrV(x) : x \in StringsUpTo(StrCharsC4, MaxStrLen)} \cup {NumV(<<"1">>), ObjEmptyD}
ObjsC4 ==
  {<<>>} \cup {<<<<k, v>>>> : k \in {Ka, Kb}, v \in ValsC4}
  \cup {<<<<Ka, v>>, <<Kb, w>>>> : v, w \in ValsC4}
InitC4 ==
  /\ PipeInit
  /\ \E o \in ObjsC4 : XInitWith(JsonDumps(o), <<>>, o)
SpecC4 == InitC4 /\ [][NextX]_vars

\* one or two fenced blocks whose contents have at most MaxContent characters
\* and hold no run of three backticks
MaxContent == 3
Fence(c) == <<BT, BT, BT>> \o c \o <<BT, BT, BT>>
Contents == {c \in StringsUpTo({BT, "{", "}"}, MaxContent) : FindTriple(c, 1) = 0}
InitC8 ==
  /\ PipeInit
  /\ \/ \E c \in Contents : XInitWith(Fence(c), <<c>>, <<>>)
     \/ \E c, d \in Contents : XInitWith(Fence(c) \o Fence(d), <<c, d>>, <<>>)
SpecC8 == InitC8 /\ [][NextX]_vars

\* texts made of three pieces: noise, balanced spans that parse and spans that do not
Pieces ==
  {<<"a">>, <<" ">>, <<"}">>, <<"{">>, <<"{", "}">>, <<"{", "a", "}">>,
   <<"{", Q, "a", Q, ":", "1", "}">>, <<"{", "{", "}", "}">>, <<"{", "a", "{", "}", "}">>}
InitC9 ==
  /\ PipeInit
  /\ \E p1, p2, p3 \in Pieces : XInitWith(p1 \o p2 \o p3, <<p1, p2, p3>>, <<>>)
SpecC9 == InitC9 /\ [][NextX]_vars

\* ------------------------------------------------------------------
\* Properties
\* ------------------------------------------------------------------

\* C1: once the run is DONE, the published tags are exactly 3 non-empty,
\* trimmed strings that are pairwise distinct ignoring case, also when the
\* last-resort PublishOut fallback was taken.
C1_TagsRepaired ==
  pc = "DONE" =>
    /\ Len(publish.tags) = 3
    /\ \A i \in 1..3 : publish.tags[i] # <<>> /\ Strip(publish.tags[i]) = publish.tags[i]
    /\ \A i, j \in 1..3 : i # j => Lower(publish.tags[i]) # Lower(publish.tags[j])

\* C2: after a validated Reviewer result the run never fails: FAILED is
\* entered only from PLANNING or REVIEWING.
C2_FailOnlyEarly ==
  pc = "FAILED" => failedFrom \in {"PLANNING", "REVIEWING"}

\* C3: a text holding exactly one valid top-level JSON object amid noise
\* (stray braces allowed, braces inside string values allowed) extracts to
\* that object without raising.
C3Pre ==
  LET t == xtext
      a == Len(xparts[1]) + 1
      b == Len(xparts[1]) + Len(CanonObj(xobj))
  IN \A i, j \in 1..Len(t) :
       (i <= j /\ t[i] = "{" /\ t[j] = "}" /\ JsonLoads(SubSeq(t, i, j)).ok)
         => ((i = a /\ j = b) \/ (a < i /\ j < b))

C3_ExtractsTheObject ==
  (xpc = "done" /\ C3Pre) => (xres.ok /\ xres.val = CanonObj(xobj))

\* C4 (as stated): extract_json(json.dumps(o)) equals o for every object o.
C4_IdempotentAll ==
  xpc = "done" => (xres.ok /\ xres.val = CanonObj(xobj))

\* C4 (amended): extract_json(json.dumps(o)) equals o whenever the
\* serialization holds no ```...``` pair for the fence stripping to remove.
C4_IdempotentNoFence ==
  (xpc = "done" /\ StripFences(xtext) = xtext) => (xres.ok /\ xres.val = CanonObj(xobj))

C4_Witness ==
  /\ xpc = "done"
  /\ StripFences(xtext) = xtext
  /\ xobj = <<<<Ka, StrV(<<BT, BT, "}">>)>>, <<Kb, StrV(<<BT, "{", BT>>)>>>>

\* C5: when the Planner or Reviewer output fails extraction or validation
\* the run ends FAILED with an error on stderr, nothing printed as the
\* final Publish JSON, and no model call after the failing stage.
C5_EarlyFailureAborts ==
  failedFrom \in {"PLANNING", "REVIEWING"} =>
    /\ pc = "FAILED"
    /\ stderrOut
    /\ ~printed
    /\ calls = IF failedFrom = "PLANNING" THEN 1 ELSE 2

C5_Witness == pc = "FAILED" /\ failedFrom = "REVIEWING"

\* C6: a printed Publish result has exactly the keys tags and summary,
\* 3 non-empty string tags, and a summary of at most 25 word-tokens.
C6_PublishShape ==
  printed =>
    /\ DOMAIN publish = {"tags", "summary"}
    /\ Len(publish.tags) = 3
    /\ \A i \in 1..3 : Strip(publish.tags[i]) # <<>>
    /\ word_count(publish.summary) <= MaxWords

C6_Witness ==
  /\ printed
  /\ word_count(SummarySource(finalJson, revSumm)) > MaxWords
  /\ publish.tags = SubSeq(revTags, 1, 3)
  /\ word_count(revSumm) > MaxWords

\* C7: a summary of more than 25 word-tokens is repaired to exactly its
\* first 25 word-tokens, in order.
C7_TruncatesTo25 ==
  (pc = "DONE" /\ Len(Tokens(SummarySource(finalJson, revSumm))) > MaxWords)
    => Tokens(repSumm) = SubSeq(Tokens(SummarySource(finalJson, revSumm)), 1, MaxWords)

\* C8 (as stated): a text made only of fenced blocks extracts to nothing.
C8_FencedOnlyFails ==
  xpc = "done" => ~xres.ok

\* C8 (amended): a text made only of fenced blocks, none of whose contents
\* begins or ends with a backtick, extracts to nothing.
PlainFences ==
  \A i \in DOMAIN xparts :
    xparts[i] = <<>> \/ (Head(xparts[i]) # BT /\ xparts[i][Len(xparts[i])] # BT)

C8_FencedOnlyFailsPlain ==
  (xpc = "done" /\ PlainFences) => ~xres.ok

C8_Witness ==
  /\ xpc = "done"
  /\ PlainFences
  /\ Len(xparts) = 2
  /\ JsonLoads(xparts[1]).ok
  /\ JsonLoads(xparts[2]).ok

\* C9: when the remaining text is not JSON and holds several top-level
\* balanced-brace spans, the result is the parse of the leftmost span that
\* parses.
RECURSIVE DepthAt(_, _)
DepthAt(t, k) ==
  IF k = 0 THEN 0
  ELSE LET d == DepthAt(t, k - 1) IN
       IF t[k] = "{" THEN d + 1 ELSE IF t[k] = "}" /\ d > 0 THEN d - 1 ELSE d

TopSpans(t) ==
  {sp \in (1..Len(t)) \X (1..Len(t)) :
     /\ t[sp[1]] = "{"
     /\ DepthAt(t, sp[1] - 1) = 0
     /\ sp[1] < sp[2]
     /\ DepthAt(t, sp[2]) = 0
     /\ \A k \in sp[1]..(sp[2] - 1) : DepthAt(t, k) > 0}

ParsingSpans(t) == {sp \in TopSpans(t) : JsonLoads(SubSeq(t, sp[1], sp[2])).ok}

C9Pre ==
  /\ xpc = "done"
  /\ ~JsonLoads(Strip(StripFences(xtext))).ok
  /\ Cardinality(TopSpans(StripFences(xtext))) >= 2

C9_FirstParseableSpan ==
  C9Pre =>
    LET t == StripFences(xtext)
        ps == ParsingSpans(t)
    IN IF ps = {} THEN ~xres.ok
       ELSE LET f == CHOOSE sp \in ps : \A o \in ps : sp[1] <= o[1]
            IN xres.ok /\ xres.val = JsonLoads(SubSeq(t, f[1], f[2])).val

C9_Witness ==
  /\ C9Pre
  /\ Cardinality(ParsingSpans(xtext)) >= 2
  /\ \E sp \in TopSpans(xtext) :
       /\ ~JsonLoads(SubSeq(xtext, sp[1], sp[2])).ok
       /\ \A o \in ParsingSpans(xtext) : sp[1] < o[1]

\* C10 (as stated): a present Finalizer tags field that is not a list
\* leaves the published tags drawn from the Reviewer's approved tags only.
FromReviewer(ts) ==
  \A i \in DOMAIN ts : \E j \in 1..3 : ts[i] \in {revTags[j], Strip(revTags[j])}

====
